---- MODULE Spec2Model ----
(***************************************************************************)
(* Expand/collapse state of the Accordion and Accordion2 components        *)
(* (src/components/Accordion.tsx, src/components/Accordion2.tsx).          *)
(*                                                                         *)
(* One component instance is a record of React state (hydrated,            *)
(* expandedSectionIds), the updates that have been issued with a state     *)
(* setter but not yet rendered (queue, pendHydrated), the dependencies of  *)
(* the effects as of their last run, the DOM of the section content        *)
(* elements (hidden attribute, beforematch listeners) and the session      *)
(* storage of the page.  Every variable that belongs to a component is a   *)
(* function over comps, the components that are driven by the same         *)
(* events: one component under Spec, both under PairSpec.                  *)
(***************************************************************************)
EXTENDS Integers, Sequences, FiniteSets, TLC

\* ------------------------------------------------------------------ bounds
NumSections == 2          \* section ids are 1..NumSections
MaxQueue == 2             \* state updates issued and not yet rendered

Impl == {"Accordion", "Accordion2"}
Ids == 1..NumSections
NoFlag == "null"          \* what sessionStorage.getItem gives for no entry
FlagValues == {NoFlag, "0", "1", "true"}
NotRun == "notrun"        \* dependencies of an effect that has not run
\* a dependency value (a boolean) as of the last run of an effect
Dep(b) == IF b THEN "true" ELSE "false"
\* no unmount is on record
NoSnapshot == [valid |-> FALSE, hydrated |-> FALSE, expanded |-> {}, pending |-> {}]

VARIABLES
  comps,               \* the components under consideration
  items,               \* ids of the sections handed to the component
  defaultExpanded,     \* [items -> BOOLEAN], the defaultExpanded props
  mounted,             \* the component is in the tree
  effectsPending,      \* a render is committed, its effects have not run
  hydrated,            \* [comps -> BOOLEAN], state of useIsHydrated
  pendHydrated,        \* [comps -> BOOLEAN], hydrated after the next render
  expandedSectionIds,  \* [comps -> SUBSET Ids], state of the last render
  queue,               \* [comps -> Seq(update)], setExpandedSectionIds calls
  storage,             \* [comps -> [keys -> FlagValues]], sessionStorage
  effExpanded,         \* [comps -> [Ids -> Dep(..) or NotRun]], section deps
  effHydrated,         \* [comps -> Dep(..) or NotRun], reconcile effect deps
  listeners,           \* [comps -> [Ids -> Nat]], beforematch listeners
  hiddenAttr,          \* [comps -> [Ids -> BOOLEAN]], hidden="until-found"
  reconcileRuns,       \* [comps -> Nat], reconciliations issued since mount
  reconciled,          \* [comps -> BOOLEAN], a reconciliation was rendered
  beforeUnmount        \* [comps -> snapshot], the state at the last unmount

vars == <<comps, items, defaultExpanded, mounted, effectsPending, hydrated,
          pendHydrated, expandedSectionIds, queue, storage, effExpanded,
          effHydrated, listeners, hiddenAttr, reconcileRuns, reconciled,
          beforeUnmount>>

\* --------------------------------------------------------- session storage
\* `moduk.accordion.${id}.expanded`
StorageKey(id) == <<"moduk.accordion", id, "expanded">>
Keys == {StorageKey(id) : id \in Ids}

\* expanded ? "1" : "0"
FlagOf(expanded) == IF expanded THEN "1" ELSE "0"

\* saveSectionExpandedState(sectionId, expanded)
saveSectionExpandedState(st, sectionId, expanded) ==
  [st EXCEPT ![StorageKey(sectionId)] = FlagOf(expanded)]

\* variant: the flag written for the opposite of the new state
saveAllSectionExpandedStateNegated(st, expanded) ==
  [k \in Keys |-> IF \E id \in items : k = StorageKey(id)
                  THEN FlagOf(~expanded) ELSE st[k]]

\* saveAllSectionExpandedState(expanded): items.forEach(setItem)
saveAllSectionExpandedState(st, expanded) ==
  [k \in Keys |-> IF \E id \in items : k = StorageKey(id)
                  THEN FlagOf(expanded) ELSE st[k]]

\* ------------------------------------------------------ the expanded set
\* variant: every stored flag but "0" counts as expanded
StoredOrDefaultNotZero(st, id) ==
  LET sessionState == st[StorageKey(id)]
  IN IF sessionState # NoFlag THEN sessionState # "0" ELSE defaultExpanded[id]

\* the filter callback of the mount effect
StoredOrDefault(st, id) ==
  LET sessionState == st[StorageKey(id)]
  IN IF sessionState # NoFlag THEN sessionState = "1" ELSE defaultExpanded[id]

\* new Set(items.filter(...).map(item => item.id))
ReconciledSectionIds(st) == {id \in items : StoredOrDefault(st, id)}

\* variant: the initial state read from the session storage
InitialExpandedSectionIdsFromStorage(c) == ReconciledSectionIds(storage[c])

\* the argument of useState for expandedSectionIds
InitialExpandedSectionIds(c) ==
  IF c = "Accordion" THEN {} ELSE {id \in items : defaultExpanded[id]}

\* variant: items.some in place of items.every
someExpanded(c) == \E id \in items : id \in expandedSectionIds[c]

\* items.every(item => expandedSectionIds.has(item.id))
allExpanded(c) == \A id \in items : id \in expandedSectionIds[c]

\* updates handed to setExpandedSectionIds: a value, or an updater function
\* closed over (id, expanded)
SetValue(ids, src) == [kind |-> "value", ids |-> ids, id |-> 0,
                       expanded |-> FALSE, src |-> src]
Updater(id, expanded, src) == [kind |-> "updater", ids |-> {}, id |-> id,
                               expanded |-> expanded, src |-> src]

\* variant: the updater starts from an empty set, not a copy of the previous
SectionUpdaterNoCopy(prev, id, expanded) == IF expanded THEN {id} ELSE {}

\* the updater of setSectionExpandedState / setSectionState
SectionUpdater(prev, id, expanded) ==
  IF expanded THEN prev \cup {id} ELSE prev \ {id}

ApplyUpdate(prev, u) ==
  IF u.kind = "value" THEN u.ids ELSE SectionUpdater(prev, u.id, u.expanded)

RECURSIVE ApplyQueue(_, _)
ApplyQueue(prev, q) ==
  IF q = <<>> THEN prev ELSE ApplyQueue(ApplyUpdate(prev, Head(q)), Tail(q))

\* ------------------------------------------------------------- rendering
\* AccordionHeadingButton: a span unless hydrated, else a button
HeadingIsButton(c) == hydrated[c]

\* variant: the show-all control rendered without the hydrated test
ControlsRenderedAlways(c) == TRUE

\* AccordionControls: null unless hydrated
ControlsRendered(c) == hydrated[c]

\* {expanded ? "Hide" : "Show"} all sections
ShowAllLabel(c) == IF allExpanded(c) THEN "Hide" ELSE "Show"

\* --------------------------------------------------------------- effects
\* the effect of a section, dependencies [expanded]
SectionEffectRuns(c, id) ==
  id \in items /\ effExpanded[c][id] # Dep(id \in expandedSectionIds[c])

\* variant: the effect returns no cleanup
CleanupRemovesNothing(c, id) == 0

\* the cleanup the last run returned: removeEventListener, if it added one
CleanupRemoves(c, id) == IF effExpanded[c][id] = Dep(FALSE) THEN 1 ELSE 0

\* variant: the listener added when the section is expanded
ListenersAfterEffectInverted(c, id) ==
  IF ~SectionEffectRuns(c, id) THEN listeners[c][id]
  ELSE LET cleaned == listeners[c][id] - CleanupRemoves(c, id)
       IN IF id \in expandedSectionIds[c] THEN cleaned + 1 ELSE cleaned

ListenersAfterEffect(c, id) ==
  IF ~SectionEffectRuns(c, id) THEN listeners[c][id]
  ELSE LET cleaned == listeners[c][id] - CleanupRemoves(c, id)
       IN IF id \in expandedSectionIds[c] THEN cleaned ELSE cleaned + 1

HiddenAfterEffect(c, id) ==
  IF ~SectionEffectRuns(c, id) THEN hiddenAttr[c][id]
  ELSE id \notin expandedSectionIds[c]

\* useIsHydrated: useEffect(() => setHydrated(true), [])
HydratedAfterEffect(c) ==
  IF effHydrated[c] = NotRun THEN TRUE ELSE pendHydrated[c]

\* the reconcile effect, dependencies [hydrated]
ReconcileEffectRuns(c) == effHydrated[c] # Dep(hydrated[c])

\* variant: no early return when hydrated
ReconcileEffectUnguarded(c) ==
  <<SetValue(ReconciledSectionIds(storage[c]), "mount")>>

ReconcileEffect(c) ==
  IF hydrated[c] THEN <<>>
  ELSE <<SetValue(ReconciledSectionIds(storage[c]), "mount")>>

\* ---------------------------------------------------------------- Init
InitFor(cs) ==
  /\ comps = cs
  /\ \E n \in 0..NumSections : items = 1..n
  /\ defaultExpanded \in [items -> BOOLEAN]
  /\ mounted = FALSE
  /\ effectsPending = FALSE
  /\ hydrated = [c \in comps |-> FALSE]
  /\ pendHydrated = [c \in comps |-> FALSE]
  /\ expandedSectionIds = [c \in comps |-> {}]
  /\ queue = [c \in comps |-> <<>>]
  /\ \E st \in [Keys -> FlagValues] : storage = [c \in comps |-> st]
  /\ effExpanded = [c \in comps |-> [id \in Ids |-> NotRun]]
  /\ effHydrated = [c \in comps |-> NotRun]
  /\ listeners = [c \in comps |-> [id \in Ids |-> 0]]
  /\ hiddenAttr = [c \in comps |-> [id \in Ids |-> FALSE]]
  /\ reconcileRuns = [c \in comps |-> 0]
  /\ reconciled = [c \in comps |-> FALSE]
  /\ beforeUnmount = [c \in comps |-> NoSnapshot]

Init == \E c \in Impl : InitFor({c})

PairInit == InitFor(Impl)

\* --------------------------------------------------------------- actions
\* the first render of a new instance: useState initial values, no effects
Mount ==
  /\ ~mounted
  /\ mounted' = TRUE
  /\ effectsPending' = TRUE
  /\ hydrated' = [c \in comps |-> FALSE]
  /\ pendHydrated' = [c \in comps |-> FALSE]
  /\ expandedSectionIds' = [c \in comps |-> InitialExpandedSectionIds(c)]
  /\ queue' = [c \in comps |-> <<>>]
  /\ effExpanded' = [c \in comps |-> [id \in Ids |-> NotRun]]
  /\ effHydrated' = [c \in comps |-> NotRun]
  /\ listeners' = [c \in comps |-> [id \in Ids |-> 0]]
  /\ hiddenAttr' = [c \in comps |-> [id \in Ids |-> FALSE]]
  /\ reconcileRuns' = [c \in comps |-> 0]
  /\ reconciled' = [c \in comps |-> FALSE]
  /\ UNCHANGED <<comps, items, defaultExpanded, storage, beforeUnmount>>

\* the effects of the committed render: the sections' first, then
\* useIsHydrated's, then the reconcile effect
RunEffects ==
  /\ mounted /\ effectsPending
  /\ effectsPending' = FALSE
  /\ listeners' = [c \in comps |-> [id \in Ids |-> ListenersAfterEffect(c, id)]]
  /\ hiddenAttr' = [c \in comps |-> [id \in Ids |-> HiddenAfterEffect(c, id)]]
  /\ effExpanded' = [c \in comps |-> [id \in Ids |->
        IF id \in items THEN Dep(id \in expandedSectionIds[c]) ELSE NotRun]]
  /\ pendHydrated' = [c \in comps |-> HydratedAfterEffect(c)]
  /\ queue' = [c \in comps |->
        IF ReconcileEffectRuns(c) THEN queue[c] \o ReconcileEffect(c)
        ELSE queue[c]]
  /\ reconcileRuns' = [c \in comps |->
        IF ReconcileEffectRuns(c)
        THEN reconcileRuns[c] + Len(ReconcileEffect(c))
        ELSE reconcileRuns[c]]
  /\ effHydrated' = [c \in comps |-> Dep(hydrated[c])]
  /\ UNCHANGED <<comps, items, defaultExpanded, mounted, hydrated,
                 expandedSectionIds, storage, reconciled, beforeUnmount>>

\* a render applies every queued update, in order
UpdatePending(c) == queue[c] # <<>> \/ pendHydrated[c] # hydrated[c]

Render ==
  /\ mounted /\ ~effectsPending
  /\ \E c \in comps : UpdatePending(c)
  /\ hydrated' = pendHydrated
  /\ expandedSectionIds' =
        [c \in comps |-> ApplyQueue(expandedSectionIds[c], queue[c])]
  /\ queue' = [c \in comps |-> <<>>]
  /\ reconciled' = [c \in comps |->
        reconciled[c] \/ \E i \in 1..Len(queue[c]) : queue[c][i].src = "mount"]
  /\ effectsPending' = TRUE
  /\ beforeUnmount' = [c \in comps |-> NoSnapshot]
  /\ UNCHANGED <<comps, items, defaultExpanded, mounted, pendHydrated, storage,
                 effExpanded, effHydrated, listeners, hiddenAttr,
                 reconcileRuns>>

\* setSectionExpandedState(id, expanded) / setSectionState(id, expanded)
setSectionExpandedState(id, expanded, src) ==
  /\ storage' = [c \in comps |-> saveSectionExpandedState(storage[c], id, expanded)]
  /\ queue' = [c \in comps |-> Append(queue[c], Updater(id, expanded, src))]

QueueHasRoom == \A c \in comps : Len(queue[c]) < MaxQueue

\* onClick={() => setSectionExpandedState(sectionId, !expanded)}
ToggleClick(id) ==
  /\ mounted /\ id \in items /\ QueueHasRoom
  /\ \A c \in comps : HeadingIsButton(c)
  /\ \A c, d \in comps : (id \in expandedSectionIds[c]) = (id \in expandedSectionIds[d])
  /\ \E c \in comps : setSectionExpandedState(id, id \notin expandedSectionIds[c], "toggle")
  /\ UNCHANGED <<comps, items, defaultExpanded, mounted, effectsPending,
                 hydrated, pendHydrated, expandedSectionIds, effExpanded,
                 effHydrated, listeners, hiddenAttr, reconcileRuns, reconciled,
                 beforeUnmount>>

\* handleBeforeMatch, a listener of the content element
BeforeMatch(id) ==
  /\ mounted /\ id \in items /\ QueueHasRoom
  /\ \A c \in comps : listeners[c][id] > 0
  /\ setSectionExpandedState(id, TRUE, "beforematch")
  /\ UNCHANGED <<comps, items, defaultExpanded, mounted, effectsPending,
                 hydrated, pendHydrated, expandedSectionIds, effExpanded,
                 effHydrated, listeners, hiddenAttr, reconcileRuns, reconciled,
                 beforeUnmount>>

\* handleShowAllClick, with the allExpanded of the last render
handleShowAllClick(c) ==
  IF allExpanded(c) THEN SetValue({}, "showall") ELSE SetValue(items, "showall")

ShowAllClick ==
  /\ mounted /\ QueueHasRoom
  /\ \A c \in comps : ControlsRendered(c)
  /\ storage' = [c \in comps |-> saveAllSectionExpandedState(storage[c], ~allExpanded(c))]
  /\ queue' = [c \in comps |-> Append(queue[c], handleShowAllClick(c))]
  /\ UNCHANGED <<comps, items, defaultExpanded, mounted, effectsPending,
                 hydrated, pendHydrated, expandedSectionIds, effExpanded,
                 effHydrated, listeners, hiddenAttr, reconcileRuns, reconciled,
                 beforeUnmount>>

\* the component leaves the tree: the cleanups run, the instance and the
\* updates queued for it are dropped, the session storage stays
Unmount ==
  /\ mounted
  /\ mounted' = FALSE
  /\ effectsPending' = FALSE
  /\ listeners' = [c \in comps |-> [id \in Ids |->
        listeners[c][id] - CleanupRemoves(c, id)]]
  /\ beforeUnmount' = [c \in comps |->
        [valid |-> TRUE, hydrated |-> hydrated[c],
         expanded |-> expandedSectionIds[c],
         pending |-> ApplyQueue(expandedSectionIds[c], queue[c])]]
  /\ hydrated' = [c \in comps |-> FALSE]
  /\ pendHydrated' = [c \in comps |-> FALSE]
  /\ expandedSectionIds' = [c \in comps |-> {}]
  /\ queue' = [c \in comps |-> <<>>]
  /\ effExpanded' = [c \in comps |-> [id \in Ids |-> NotRun]]
  /\ effHydrated' = [c \in comps |-> NotRun]
  /\ hiddenAttr' = [c \in comps |-> [id \in Ids |-> FALSE]]
  /\ reconcileRuns' = [c \in comps |-> 0]
  /\ reconciled' = [c \in comps |-> FALSE]
  /\ UNCHANGED <<comps, items, defaultExpanded, storage>>

Next ==
  \/ Mount
  \/ RunEffects
  \/ Render
  \/ \E id \in Ids : ToggleClick(id)
  \/ \E id \in Ids : BeforeMatch(id)
  \/ ShowAllClick
  \/ Unmount

Spec == Init /\ [][Next]_vars

PairSpec == PairInit /\ [][Next]_vars

\* ================================================================ claims
\* the stored flag of a section: getItem(`moduk.accordion.${id}.expanded`)
Flag(c, id) == storage[c][<<"moduk.accordion", id, "expanded">>]

FlagAfter(c, id) == storage'[c][<<"moduk.accordion", id, "expanded">>]

\* this step issued one update of expandedSectionIds from an event
Issued(c) == mounted /\ mounted' /\ queue'[c] # <<>>
             /\ Len(queue'[c]) = Len(queue[c]) + 1
             /\ queue'[c][Len(queue'[c])].src # "mount"
NewUpdate(c) == queue'[c][Len(queue'[c])]

\* this step rendered the queued updates
Rendered(c) == mounted /\ mounted' /\ ~effectsPending /\ effectsPending'
LastUpdate(c) == queue[c][Len(queue[c])]
Queued(c, src) == {i \in 1..Len(queue[c]) : queue[c][i].src = src}

\* the set a section list is reconciled to, as the claims word it
InStep(c) ==
  \A id \in items :
    id \in expandedSectionIds[c]
      <=> (Flag(c, id) = "1" \/ (Flag(c, id) = "null" /\ defaultExpanded[id]))

\* C1: the render that applies the mount reconciliation is the first and only
\* one to do so, and leaves every section expanded iff its stored flag is "1",
\* or it has no stored flag and its defaultExpanded hint is true.
C1_MountReconciles ==
  [][\A c \in comps :
       (Rendered(c) /\ Queued(c, "mount") # {})
         => /\ ~reconciled[c]
            /\ Cardinality(Queued(c, "mount")) = 1
            /\ reconcileRuns'[c] = 1
            /\ InStep(c)']_vars

C1_Witness ==
  \E c \in comps : \E i, j \in items :
    /\ mounted /\ hydrated[c] /\ reconciled[c] /\ queue[c] = <<>>
    /\ Flag(c, i) = "true" /\ defaultExpanded[i] /\ i \notin expandedSectionIds[c]
    /\ Flag(c, j) = "null" /\ defaultExpanded[j] /\ j \in expandedSectionIds[c]

\* C2: a call setSectionExpandedState(id, e) writes the flag of id ("1" if e,
\* else "0") and no other flag, leaves the rendered set alone until the next
\* render, and at that render (where it is the last update queued) puts id in
\* the expanded set iff e and changes the membership of no other id, whatever
\* was queued before it.
C2_ToggleFrame ==
  [][\A c \in comps :
       /\ (Issued(c) /\ NewUpdate(c).kind = "updater")
            => /\ FlagAfter(c, NewUpdate(c).id) = (IF NewUpdate(c).expanded THEN "1" ELSE "0")
               /\ \A k \in DOMAIN storage[c] :
                    k # <<"moduk.accordion", NewUpdate(c).id, "expanded">>
                      => storage'[c][k] = storage[c][k]
               /\ expandedSectionIds'[c] = expandedSectionIds[c]
       /\ (Rendered(c) /\ queue[c] # <<>> /\ LastUpdate(c).kind = "updater")
            => LET u == LastUpdate(c)
                   before == ApplyQueue(expandedSectionIds[c],
                                        SubSeq(queue[c], 1, Len(queue[c]) - 1))
               IN /\ (u.id \in expandedSectionIds'[c]) <=> u.expanded
                  /\ FlagAfter(c, u.id) = (IF u.expanded THEN "1" ELSE "0")
                  /\ expandedSectionIds'[c] \ {u.id} = before \ {u.id}
                  /\ Len(queue[c]) = 1
                       => expandedSectionIds'[c] \ {u.id}
                            = expandedSectionIds[c] \ {u.id}]_vars

C2_Witness ==
  \E c \in comps :
    /\ mounted /\ hydrated[c] /\ Len(queue[c]) = 2
    /\ queue[c][1].src = "showall"
    /\ queue[c][2].src = "toggle" /\ ~queue[c][2].expanded
    /\ Flag(c, queue[c][2].id) = "0"
    /\ \E j \in items : j # queue[c][2].id /\ j \in expandedSectionIds[c]

\* C3 as stated: after an unmount of a hydrated component, the reconciliation
\* of the next mount yields the expanded set rendered just before the unmount.
C3_ReloadRestoresRendered ==
  [][\A c \in comps :
       (Rendered(c) /\ beforeUnmount[c].valid /\ beforeUnmount[c].hydrated
          /\ Len(queue[c]) = 1 /\ queue[c][1].src = "mount")
         => expandedSectionIds'[c] = beforeUnmount[c].expanded]_vars

\* C3 amended: after an unmount of a hydrated component, the reconciliation of
\* the next mount yields the expanded set rendered just before the unmount
\* with the updates that were still queued at the unmount applied to it.
C3_ReloadRestoresIssued ==
  [][\A c \in comps :
       (Rendered(c) /\ beforeUnmount[c].valid /\ beforeUnmount[c].hydrated
          /\ Len(queue[c]) = 1 /\ queue[c][1].src = "mount")
         => expandedSectionIds'[c] = beforeUnmount[c].pending]_vars

C3_Witness ==
  \E c \in comps :
    /\ mounted /\ ~effectsPending
    /\ beforeUnmount[c].valid /\ beforeUnmount[c].hydrated
    /\ beforeUnmount[c].pending # beforeUnmount[c].expanded
    /\ Len(queue[c]) = 1 /\ queue[c][1].src = "mount"
    /\ queue[c][1].ids = beforeUnmount[c].pending
    /\ queue[c][1].ids # InitialExpandedSectionIds(c)

\* C4: headings are buttons and the show-all control is rendered exactly when
\* hydrated; no toggle or show-all update is issued while hydrated is false;
\* hydrated is false until the mount effects have run, true after the render
\* that follows them, and stays true while the component is mounted.
C4_InteractiveIffHydrated ==
  [][\A c \in comps :
       /\ (Issued(c) /\ NewUpdate(c).src \in {"toggle", "showall"}) => hydrated[c]
       /\ mounted' => /\ HeadingIsButton(c)' <=> hydrated'[c]
                      /\ ControlsRendered(c)' <=> hydrated'[c]
       /\ (mounted' /\ effHydrated'[c] = "notrun") => ~hydrated'[c]
       /\ Rendered(c) => hydrated'[c]
       /\ (mounted /\ mounted' /\ hydrated[c]) => hydrated'[c]]_vars

C4_Witness ==
  \E c \in comps :
    /\ mounted /\ ~hydrated[c] /\ effHydrated[c] # "notrun"
    /\ queue[c] # <<>> /\ LastUpdate(c).src = "beforematch"

\* C5: on the initial render (mounted, no effect has run) hydrated is false and
\* the expanded set is the one the section props alone determine: empty for
\* Accordion, the sections with defaultExpanded for Accordion2; the session
\* storage has no part in it.
C5_InitialRenderIgnoresStorage ==
  \A c \in comps :
    (mounted /\ effHydrated[c] = "notrun")
      => /\ ~hydrated[c]
         /\ expandedSectionIds[c] =
              (IF c = "Accordion" THEN {} ELSE {id \in items : defaultExpanded[id]})

C5_Witness ==
  \E c \in comps : \E i, j \in items :
    /\ mounted /\ effHydrated[c] = "notrun"
    /\ Flag(c, i) = "1" /\ ~defaultExpanded[i] /\ i \notin expandedSectionIds[c]
    /\ Flag(c, j) = "0" /\ defaultExpanded[j]

\* C6: every collapsed section whose effects have run has a beforematch
\* listener; a beforematch event stores the flag "1" at once, and when the
\* section is collapsed the render that applies the event leaves the section
\* expanded with the flag still "1".
C6_BeforeMatchExpands ==
  [][\A c \in comps :
       /\ \A id \in items :
            (mounted' /\ ~effectsPending' /\ id \notin expandedSectionIds'[c])
              => listeners'[c][id] >= 1
       /\ (Issued(c) /\ NewUpdate(c).src = "beforematch")
            => /\ NewUpdate(c).expanded
               /\ FlagAfter(c, NewUpdate(c).id) = "1"
       /\ Rendered(c)
            => \A i \in Queued(c, "beforematch") :
                 queue[c][i].id \notin expandedSectionIds[c]
                   => /\ queue[c][i].id \in expandedSectionIds'[c]
                      /\ FlagAfter(c, queue[c][i].id) = "1"]_vars

C6_Witness ==
  \E c \in comps :
    /\ mounted /\ hydrated[c] /\ Len(queue[c]) = 2
    /\ queue[c][1].src = "beforematch"
    /\ queue[c][1].id \notin expandedSectionIds[c]
    /\ queue[c][2].src = "showall"

\* C7: driven by the same events from the same props and storage, Accordion
\* and Accordion2 agree on hydrated, the expanded set and the session storage
\* in every state.
C7_SameInteractionModel ==
  \A c, d \in comps :
    /\ hydrated[c] = hydrated[d]
    /\ expandedSectionIds[c] = expandedSectionIds[d]
    /\ storage[c] = storage[d]

\* C8: a show-all click issues the empty set and the flag "0" for every
\* section if every section is in the rendered expanded set, else the set of
\* all section ids and the flag "1" for every section; flags of other ids are
\* untouched; the render where it is the last update makes that set the
\* expanded set; the control reads "Hide" iff every section is expanded.
C8_ShowAll ==
  [][\A c \in comps :
       /\ (Issued(c) /\ NewUpdate(c).src = "showall")
            => /\ NewUpdate(c).kind = "value"
               /\ NewUpdate(c).ids =
                    (IF items \subseteq expandedSectionIds[c] THEN {} ELSE items)
               /\ \A id \in items :
                    FlagAfter(c, id) =
                      (IF items \subseteq expandedSectionIds[c] THEN "0" ELSE "1")
               /\ \A id \in Ids \ items : FlagAfter(c, id) = Flag(c, id)
       /\ (Rendered(c) /\ queue[c] # <<>> /\ LastUpdate(c).src = "showall")
            => /\ expandedSectionIds'[c] = LastUpdate(c).ids
               /\ \A id \in items :
                    FlagAfter(c, id) = (IF id \in expandedSectionIds'[c] THEN "1" ELSE "0")
       /\ mounted'
            => (ShowAllLabel(c)' = "Hide" <=> items \subseteq expandedSectionIds'[c])]_vars

C8_Witness ==
  \E c \in comps :
    /\ mounted /\ hydrated[c] /\ items # {}
    /\ queue[c] # <<>> /\ LastUpdate(c).src = "showall" /\ LastUpdate(c).ids = {}
    /\ \A id \in items : Flag(c, id) = "0"
    /\ \E id \in Ids \ items : Flag(c, id) = "1"

\* C9: whenever hydrated is true the mount reconciliation has been rendered,
\* it was issued exactly once, and none is queued to run again.
C9_HydratedImpliesReconciled ==
  \A c \in comps :
    (mounted /\ hydrated[c])
      => /\ reconciled[c]
         /\ reconcileRuns[c] = 1
         /\ Queued(c, "mount") = {}

C9_Witness ==
  \E c \in comps :
    /\ mounted /\ hydrated[c] /\ reconciled[c] /\ effHydrated[c] = "true"
    /\ queue[c] # <<>> /\ LastUpdate(c).src = "toggle"
    /\ ~InStep(c)

\* C10: a section never has more than one beforematch listener, has none once
\* unmounted, and once its effects have run has hidden="until-found" and one
\* listener if collapsed, no hidden attribute and no listener if expanded.
C10_ListenerMatchesState ==
  \A c \in comps : \A id \in Ids :
    /\ listeners[c][id] <= 1
    /\ ~mounted => listeners[c][id] = 0
    /\ (mounted /\ ~effectsPending /\ id \in items)
         => IF id \in expandedSectionIds[c]
            THEN ~hiddenAttr[c][id] /\ listeners[c][id] = 0
            ELSE hiddenAttr[c][id] /\ listeners[c][id] = 1

C10_Witness ==
  \E c \in comps : \E i, j \in items :
    /\ mounted /\ ~effectsPending /\ hydrated[c]
    /\ i \in expandedSectionIds[c] /\ listeners[c][i] = 0
    /\ j \notin expandedSectionIds[c] /\ listeners[c][j] = 1
    /\ hiddenAttr[c][j] /\ ~hiddenAttr[c][i]
    /\ effExpanded[c][i] = "true" /\ ~defaultExpanded[i] /\ Flag(c, i) = "1"

====
